---- MODULE Spec2Model ----
(***************************************************************************)
(* A model of two services of the raft-cache repository:                   *)
(*                                                                         *)
(*   - the ML service (src/ml-service/app.py): the /predict handler, which *)
(*     scores every key of a batch with the heuristic recency / frequency  *)
(*     / activity score and answers one prediction per key;                *)
(*   - the node manager (src/node-manager.py): the /status, /start, /stop  *)
(*     and /restart handlers over the node_processes table.                *)
(*                                                                         *)
(* Floating point is modelled in fixed point.  A float is a record         *)
(* [cls, val]: cls "fin" with val the number in fixed-point units, cls     *)
(* "inf" with val the sign, or cls "nan".  Scores are counted in units of  *)
(* 1/ScoreScale point, probabilities in units of 1/ProbScale, seconds in   *)
(* milliseconds.  TLC's integers are 32 bits wide, so timestamps are small *)
(* numbers of milliseconds; the handler reads a timestamp only through its *)
(* sign and through its difference with the current time.                  *)
(***************************************************************************)
EXTENDS Integers, Sequences, FiniteSets, TLC

VARIABLES
    request,         \* the JSON body of the POST /predict being served
    response,        \* what predict returned: status and body
    scores,          \* predict's local list `scores` when it returned
    seen,            \* the prediction a client kept from an earlier response
    node_processes,  \* node-manager.py: node_processes, node id -> pid
    procs,           \* the processes the manager spawned, by pid
    pc,              \* the node manager's handler threads: where each is
    arg,             \* the node id each handler thread was called with
    ret              \* what each handler thread returned

mlVars == <<request, response, scores, seen>>
nmVars == <<node_processes, procs, pc, arg, ret>>
vars == <<request, response, scores, seen, node_processes, procs, pc, arg, ret>>

(***************************************************************************)
(* Fixed point and IEEE floats                                             *)
(***************************************************************************)
ScoreScale == 10^4      \* units per score point
ProbScale == 10^6       \* units per probability 1.0
One == 10^6             \* units per 1.0 of an exponential factor
LogScale == 10^8        \* units per 1.0 of a logarithm

Fin(v) == [cls |-> "fin", val |-> v]
PosInf == [cls |-> "inf", val |-> 1]
NegInf == [cls |-> "inf", val |-> -1]
NaN == [cls |-> "nan", val |-> 0]

IsFin(a) == a.cls = "fin"

\* a < b on floats: every comparison with nan is false.
FLess(a, b) ==
    CASE a.cls = "nan" \/ b.cls = "nan" -> FALSE
      [] a.cls = "fin" /\ b.cls = "fin" -> a.val < b.val
      [] a.cls = "inf" /\ b.cls = "inf" -> a.val < b.val
      [] a.cls = "inf" -> a.val < 0
      [] OTHER -> b.val > 0

\* a + b on floats: inf + -inf is nan.
FAdd(a, b) ==
    CASE a.cls = "nan" \/ b.cls = "nan" -> NaN
      [] a.cls = "fin" /\ b.cls = "fin" -> Fin(a.val + b.val)
      [] a.cls = "inf" /\ b.cls = "inf" -> IF a.val = b.val THEN a ELSE NaN
      [] a.cls = "inf" -> a
      [] OTHER -> b

\* Python's min(first, second) and max(first, second): the first argument is
\* kept unless the second compares strictly below (above) it, so a nan second
\* argument is dropped.
PyMin(first, second) == IF FLess(second, first) THEN second ELSE first
PyMax(first, second) == IF FLess(first, second) THEN second ELSE first

\* round(x, n) with `step` the fixed-point size of 10^-n: to the nearest
\* multiple, a tie to the even one; inf and nan round to themselves.
PyRound(x, step) ==
    IF ~IsFin(x) THEN x
    ELSE LET q == x.val \div step
             r == x.val % step
         IN  Fin(IF 2 * r < step \/ (2 * r = step /\ q % 2 = 0)
                 THEN q * step ELSE (q + 1) * step)

\* a * b / One for factors a, b <= 2 * One, in 32 bits.
MulOne(a, b) == (a * (b \div 1000)) \div 1000 + (a * (b % 1000)) \div One

\* exp(-n/d) for 0 <= n <= d, by the Taylor series in Horner form.
RECURSIVE ExpSeries(_, _, _)
ExpSeries(n, d, k) ==
    IF k > 14 THEN One
    ELSE One - (n * ExpSeries(n, d, k + 1)) \div (d * k)

\* exp(-m) for a whole m >= 0: the powers of exp(-1), 0 from exp(-21) on.
RECURSIVE ExpNegPower(_)
ExpNegPower(m) ==
    IF m = 0 THEN One ELSE MulOne(ExpNegPower(m - 1), ExpSeries(1, 1, 1))

ExpNegPowers == [m \in 0..20 |-> ExpNegPower(m)]

ExpNegWhole(m) == IF m > 20 THEN 0 ELSE ExpNegPowers[m]

\* exp(-ms / 60000) for ms >= 0: minutes, seconds and milliseconds apart.
ExpNegSixtieth(ms) ==
    MulOne(MulOne(ExpNegWhole(ms \div 60000), ExpSeries((ms % 60000) \div 1000, 60, 1)),
           ExpSeries(ms % 1000, 60000, 1))

\* np.exp(-t / 60) for t = ms / 1000 seconds, as a float in units of 1/One.
\* exp overflows to inf above 709.78 (42586963 ms); a finite value above 1000
\* is kept as 1000, the largest the 32 bits hold once multiplied by 40
\* (predict only adds to it, compares the sum with 95 and rounds it).
NpExpNegSixtieth(ms) ==
    IF ms >= 0 THEN Fin(ExpNegSixtieth(ms))
    ELSE IF -ms >= 42586963 THEN PosInf
    ELSE LET d == ExpNegSixtieth(-ms)
         IN  IF d < 1000 THEN Fin(1000 * One)
             ELSE Fin((10^9 \div d) * 1000 + ((10^9 % d) * 1000) \div d)

\* atanh(1/q) in units of 1/LogScale: the sum of 1 / ((2j+1) q^(2j+1)).
RECURSIVE AtanhInv(_, _, _)
AtanhInv(q, p, j) ==
    IF p = 0 THEN 0 ELSE p \div (2 * j + 1) + AtanhInv(q, p \div (q * q), j + 1)

\* ln(1 + n) for n >= 0 in units of 1/LogScale:
\* ln(k + 1) - ln(k) = 2 atanh(1 / (2k + 1)).
RECURSIVE LnSum(_)
LnSum(n) ==
    IF n = 0 THEN 0
    ELSE LnSum(n - 1) + 2 * AtanhInv(2 * n + 1, LogScale \div (2 * n + 1), 0)

\* The logarithms up to ln(1 + 32), computed once.
LnTable == [n \in 0..32 |-> LnSum(n)]

Ln1p(n) == IF n \in DOMAIN LnTable THEN LnTable[n] ELSE LnSum(n)

\* np.log1p(n): -inf at -1, nan below (a warning, not an exception).
NpLog1p(n) ==
    IF n >= 0 THEN Fin(Ln1p(n))
    ELSE IF n = -1 THEN NegInf
    ELSE NaN

\* v * c / k for v >= 0, without the product v * c overflowing 32 bits.
MulDiv(v, c, k) == (v \div k) * c + ((v % k) * c) \div k

\* c * x for c > 0 and a float x >= 0 in units of 1/from, as a float in units
\* of 1/to (to divides from).
Times(c, x, from, to) ==
    IF IsFin(x) THEN Fin(MulDiv(x.val, c, from \div to)) ELSE x

\* x / c for c > 0 and a float x >= 0 in units of 1/from, in units of 1/to
\* (from divides to).
Over(x, c, from, to) ==
    IF IsFin(x) THEN Fin(MulDiv(x.val, to \div from, c)) ELSE x

(***************************************************************************)
(* src/ml-service/app.py: the requests                                     *)
(***************************************************************************)
MaxKeys == 2                      \* the longest batch
Now == 300 * 10^6                 \* the current time of the requests, in ms
KeyNames == <<"a", "b", "c", "d">>

AccessCounts == {-1, 0, 5}        \* access_count
HourCounts == {-2, 0, 25}         \* access_count_hour
\* last_access_ms: the epoch, a negative timestamp, three days ago, 41.6 s
\* ago, 61 s ahead of the current time, and far enough ahead for exp to
\* overflow.
LastAccess == {0, -5000, Now - 3 * 86400 * 1000, Now - 41596, Now + 61000, Now + 43 * 10^6}
CurrentTimes == {0, Now}          \* currentTime, when the body carries it

\* dict.get(field, default)
Get(d, field, default) == IF field \in DOMAIN d THEN d[field] ELSE default

\* One entry of `keys` but for its name: the key's record, with or without
\* last_access_ms.
KeyData ==
    [access_count : AccessCounts, access_count_hour : HourCounts, last_access_ms : LastAccess]
    \cup [access_count : AccessCounts, access_count_hour : HourCounts]

\* The key list of the entries ks; the i-th entry is named KeyNames[i].
KeyList(ks) == [i \in DOMAIN ks |-> [key |-> KeyNames[i]] @@ ks[i]]

\* A JSON object with the fields of d that `has` names.
Object(d, has) == [f \in has |-> d[f]]

NoResponse == [status |-> 0, body |-> <<>>]
NoSeen == [key_data |-> <<>>, probability |-> -1]

(***************************************************************************)
(* src/ml-service/app.py: predict                                          *)
(***************************************************************************)
MAX_POSSIBLE_SCORE == 100

\* max([...]) of a non-empty sequence of integers
RECURSIVE MaxOf(_)
MaxOf(xs) ==
    IF Len(xs) = 1 THEN xs[1]
    ELSE LET m == MaxOf(Tail(xs)) IN IF xs[1] >= m THEN xs[1] ELSE m

\* current_time, were a given currentTime raised to the max last access time.
current_time_raised(data) ==
    LET given == Get(data, "currentTime", 0)
        keys == Get(data, "keys", <<>>)
        latest == IF keys # <<>>
                  THEN MaxOf([i \in 1..Len(keys) |-> Get(keys[i], "last_access_ms", 0)])
                  ELSE 0
    IN  IF given >= latest THEN given ELSE latest

\* If no current time is provided, the max last access time is used.
current_time(data) ==
    LET given == Get(data, "currentTime", 0)
        keys == Get(data, "keys", <<>>)
    IN  IF given = 0
        THEN IF keys # <<>>
             THEN MaxOf([i \in 1..Len(keys) |-> Get(keys[i], "last_access_ms", 0)])
             ELSE 0
        ELSE given

\* time_since_last_sec, were it to take last_access_ms = 0 for an access at
\* the epoch (>= 0 for > 0).
time_since_epoch(now, last_access_ms) ==
    IF last_access_ms >= 0 THEN Fin(now - last_access_ms) ELSE PosInf

\* (current_time - last_access_ms) / 1000 if last_access_ms > 0 else inf,
\* kept in milliseconds.
time_since_last_sec(now, last_access_ms) ==
    IF last_access_ms > 0 THEN Fin(now - last_access_ms) ELSE PosInf

\* 40 * np.exp(-time_since_last_sec / 60) if time_since_last_sec < inf else 0
recency_score(since) ==
    IF FLess(since, PosInf)
    THEN Times(40, NpExpNegSixtieth(since.val), One, ScoreScale)
    ELSE Fin(0)

\* min(30, 10 * np.log1p(access_count))
frequency_score(access_count) ==
    PyMin(Fin(30 * ScoreScale), Times(10, NpLog1p(access_count), LogScale, ScoreScale))

\* min(30, 10 * np.log1p(hourly_rate))
activity_score(hourly_rate) ==
    PyMin(Fin(30 * ScoreScale), Times(10, NpLog1p(hourly_rate), LogScale, ScoreScale))

\* The entry of `scores` for one key.
ScoreOf(key_data, now) ==
    LET since == time_since_last_sec(now, Get(key_data, "last_access_ms", 0))
        recency == recency_score(since)
        frequency == frequency_score(Get(key_data, "access_count", 0))
        activity == activity_score(Get(key_data, "access_count_hour", 0))
    IN  [key |-> key_data.key,
         total_score |-> FAdd(FAdd(recency, frequency), activity),
         recency_score |-> recency,
         frequency_score |-> frequency,
         activity_score |-> activity,
         access_count |-> Get(key_data, "access_count", 0),
         time_since_last_sec |-> since]

\* probability, were the clamp written max(min(raw_prob, 0.95), 0.05): a nan
\* first argument is kept.
probability_nan_first(total_score) ==
    LET raw_prob == Over(total_score, MAX_POSSIBLE_SCORE, ScoreScale, ProbScale)
    IN  PyMax(PyMin(raw_prob, Fin(95 * (ProbScale \div 100))), Fin(5 * (ProbScale \div 100)))

\* max(0.05, min(0.95, raw_prob)) with raw_prob = total_score / MAX_POSSIBLE_SCORE
probability(total_score) ==
    LET raw_prob == Over(total_score, MAX_POSSIBLE_SCORE, ScoreScale, ProbScale)
    IN  PyMax(Fin(5 * (ProbScale \div 100)), PyMin(Fin(95 * (ProbScale \div 100)), raw_prob))

\* bool(probability >= 0.5), on the probability before it is rounded
willBeAccessed(p) == ~FLess(p, Fin(ProbScale \div 2)) /\ p.cls # "nan"

\* The entry of `predictions` for one entry of `scores`.
PredictionOf(score_data) ==
    LET p == probability(score_data.total_score)
    IN  [key |-> score_data.key,
         probability |-> PyRound(p, ProbScale \div 10^4).val,
         willBeAccessed |-> willBeAccessed(p),
         debug |-> [recency |-> PyRound(score_data.recency_score, ScoreScale \div 100),
                    frequency |-> PyRound(score_data.frequency_score, ScoreScale \div 100),
                    activity |-> PyRound(score_data.activity_score, ScoreScale \div 100),
                    total |-> PyRound(score_data.total_score, ScoreScale \div 100),
                    accessCount |-> score_data.access_count,
                    secSinceAccess |-> PyRound(score_data.time_since_last_sec, 100)]]

\* The list `scores` predict builds for a body with keys.
ScoresOf(data) ==
    LET keys == data.keys
        now == current_time(data)
    IN  [i \in 1..Len(keys) |-> ScoreOf(keys[i], now)]

PredictionsOf(ss) == [i \in 1..Len(ss) |-> PredictionOf(ss[i])]

\* no_keys, were only the absent list rejected.
no_keys_absent(data) == "keys" \notin DOMAIN data

\* `not keys`, for keys = data.get('keys', [])
no_keys(data) == Get(data, "keys", <<>>) = <<>>

\* POST /predict, the whole handler.  A null body has no get(): the
\* exception is caught and answered 500.
predict ==
    /\ response = NoResponse
    /\ IF request.body = "null"
       THEN /\ response' = [status |-> 500, body |-> [error |-> "exception"]]
            /\ scores' = <<>>
       ELSE IF no_keys(request.data)
       THEN /\ response' = [status |-> 400, body |-> [error |-> "No keys provided"]]
            /\ scores' = <<>>
       ELSE /\ scores' = ScoresOf(request.data)
            /\ response' = [status |-> 200,
                            body |-> [predictions |-> PredictionsOf(scores')]]
    /\ UNCHANGED <<request, seen, nmVars>>

\* A client that got predictions keeps the one of key i and asks again about
\* that key, with the same currentTime, alone or beside one other key.
resubmit(i, others) ==
    /\ response.status = 200
    /\ seen = NoSeen
    /\ seen' = [key_data |-> request.data.keys[i],
                probability |-> response.body.predictions[i].probability]
    /\ request' = [request EXCEPT !.data.keys = <<request.data.keys[i]>> \o others]
    /\ response' = NoResponse
    /\ scores' = <<>>
    /\ UNCHANGED nmVars

(***************************************************************************)
(* src/node-manager.py                                                     *)
(*                                                                         *)
(* Flask serves each request on a thread of its own, so the handlers       *)
(* interleave at their blocking calls (the shell commands, Popen and the   *)
(* sleeps).  A process the manager spawned is "starting" (alive, its port  *)
(* not yet open), "listening" (alive, accepting connections on its node's  *)
(* port), "zombie" (dead, not yet reaped: os.kill(pid, 0) still succeeds)  *)
(* or "gone".  term says that SIGTERM was sent to it.  One of the three    *)
(* nodes of NODES is modelled; the handlers treat every node alike and no  *)
(* step of theirs touches another node's port, process or entry.           *)
(***************************************************************************)
MaxThreads == 2                   \* handler threads
MaxProcs == 3                     \* processes spawned in a run
NODES == {"node1"}
NodeIds == NODES \cup {"node9"}   \* the ids a request may name; node9 is unknown
Threads == 1..MaxThreads
NoNode == "none"
NoReturn == [status |-> "none", code |-> 0, pid |-> 0]

Pids == DOMAIN procs
Exists(pid) == pid \in Pids /\ procs[pid].state # "gone"
Live(pid) == pid \in Pids /\ procs[pid].state \in {"starting", "listening"}

\* lsof -ti:port, and what connect_ex finds there: the pids listening on the
\* node's port.
OnPort(node_id) == {p \in Pids : procs[p].node = node_id /\ procs[p].state = "listening"}

\* node_processes.pop(node_id, None)
Pop(d, node_id) == [n \in DOMAIN d \ {node_id} |-> d[n]]

\* kill -9 of the pids ps: they die at once and wait to be reaped.
Kill9(ps) ==
    [p \in Pids |-> IF p \in ps /\ Live(p) THEN [procs[p] EXCEPT !.state = "zombie", !.term = FALSE]
                                            ELSE procs[p]]

\* os.killpg(os.getpgid(pid), signal.SIGTERM): a live process is told to stop.
KillPg(pid) == [procs EXCEPT ![pid].term = Live(pid)]

Return(t, r) ==
    /\ ret' = [ret EXCEPT ![t] = r]
    /\ pc' = [pc EXCEPT ![t] = "done"]

\* The processes the handlers under way still have to spawn count against
\* MaxProcs.
Spawning == {t \in Threads : pc[t] \in {"restart", "port", "popen"}}
MaySpawn == Len(procs) + Cardinality(Spawning) < MaxProcs

\* StartCheck, were the answer of connect_ex read the wrong way round
\* (result != 0 for result == 0).
StartCheckInverted(t, node_id) ==
    IF node_id \notin NODES
    THEN /\ Return(t, [status |-> "error: unknown node", code |-> 400, pid |-> 0])
         /\ UNCHANGED <<node_processes, procs>>
    ELSE IF /\ node_id \in DOMAIN node_processes
            /\ Exists(node_processes[node_id])
            /\ OnPort(node_id) = {}
    THEN /\ Return(t, [status |-> "error: already running", code |-> 400,
                       pid |-> node_processes[node_id]])
         /\ UNCHANGED <<node_processes, procs>>
    ELSE /\ node_processes' = Pop(node_processes, node_id)
         /\ pc' = [pc EXCEPT ![t] = "port"]
         /\ UNCHANGED <<procs, ret>>

\* start_node, lines 62-81: the unknown node, and the check of the process
\* already tracked (os.kill(pid, 0), then connect_ex on the node's port).
StartCheck(t, node_id) ==
    IF node_id \notin NODES
    THEN /\ Return(t, [status |-> "error: unknown node", code |-> 400, pid |-> 0])
         /\ UNCHANGED <<node_processes, procs>>
    ELSE IF /\ node_id \in DOMAIN node_processes
            /\ Exists(node_processes[node_id])
            /\ OnPort(node_id) # {}
    THEN /\ Return(t, [status |-> "error: already running", code |-> 400,
                       pid |-> node_processes[node_id]])
         /\ UNCHANGED <<node_processes, procs>>
    ELSE /\ node_processes' = Pop(node_processes, node_id)
         /\ pc' = [pc EXCEPT ![t] = "port"]
         /\ UNCHANGED <<procs, ret>>

\* POST /start/<node_id>
start_node(t, node_id) ==
    /\ pc[t] = "idle"
    /\ MaySpawn
    /\ arg' = [arg EXCEPT ![t] = node_id]
    /\ StartCheck(t, node_id)
    /\ UNCHANGED mlVars

\* start_node, lines 83-92: whatever holds the port is killed.
StartPort(t) ==
    /\ pc[t] = "port"
    /\ procs' = Kill9(OnPort(arg[t]))
    /\ pc' = [pc EXCEPT ![t] = "popen"]
    /\ UNCHANGED <<node_processes, arg, ret, mlVars>>

\* start_node, lines 94-121: the node is spawned and its pid recorded; after
\* the sleep, "started" is returned.
StartPopen(t) ==
    /\ pc[t] = "popen"
    /\ procs' = Append(procs, [node |-> arg[t], state |-> "starting", term |-> FALSE])
    /\ node_processes' = [n \in DOMAIN node_processes \cup {arg[t]} |->
                            IF n = arg[t] THEN Len(procs) + 1 ELSE node_processes[n]]
    /\ Return(t, [status |-> "started", code |-> 200, pid |-> Len(procs) + 1])
    /\ UNCHANGED <<arg, mlVars>>

\* stop_node, lines 127-152, but for where it returns to.
StopBody(t, node_id, next) ==
    IF node_id \notin NODES
    THEN /\ ret' = [ret EXCEPT ![t] = [status |-> "error: unknown node", code |-> 400, pid |-> 0]]
         /\ pc' = [pc EXCEPT ![t] = next]
         /\ UNCHANGED <<node_processes, procs>>
    ELSE IF node_id \in DOMAIN node_processes
    THEN LET pid == node_processes[node_id]
         IN  /\ node_processes' = Pop(node_processes, node_id)
             /\ pc' = [pc EXCEPT ![t] = next]
             /\ IF Exists(pid)
                THEN /\ procs' = KillPg(pid)
                     /\ ret' = [ret EXCEPT ![t] = [status |-> "stopped", code |-> 200, pid |-> pid]]
                ELSE /\ procs' = procs
                     /\ ret' = [ret EXCEPT ![t] = [status |-> "already_stopped", code |-> 200, pid |-> 0]]
    ELSE /\ procs' = Kill9(OnPort(node_id))
         /\ ret' = [ret EXCEPT ![t] = [status |-> "stopped: killed by port", code |-> 200, pid |-> 0]]
         /\ pc' = [pc EXCEPT ![t] = next]
         /\ UNCHANGED node_processes

\* POST /stop/<node_id> (and /kill/<node_id>, its alias)
stop_node(t, node_id) ==
    /\ pc[t] = "idle"
    /\ arg' = [arg EXCEPT ![t] = node_id]
    /\ StopBody(t, node_id, "done")
    /\ UNCHANGED mlVars

\* POST /restart/<node_id>: stop_node, whose answer is dropped, ...
restart_node(t, node_id) ==
    /\ pc[t] = "idle"
    /\ MaySpawn
    /\ arg' = [arg EXCEPT ![t] = node_id]
    /\ StopBody(t, node_id, "restart")
    /\ UNCHANGED mlVars

\* ... and after a second start_node.
RestartStart(t) ==
    /\ pc[t] = "restart"
    /\ StartCheck(t, arg[t])
    /\ UNCHANGED <<arg, mlVars>>

\* GET /status: the entries whose process is no more are dropped.
status(t) ==
    /\ pc[t] = "idle"
    /\ node_processes' = [n \in {m \in DOMAIN node_processes : Exists(node_processes[m])} |->
                            node_processes[n]]
    /\ Return(t, [status |-> "status", code |-> 200, pid |-> 0])
    /\ UNCHANGED <<procs, arg, mlVars>>

\* The answer is sent and the thread is free again.
Respond(t) ==
    /\ pc[t] = "done"
    /\ pc' = [pc EXCEPT ![t] = "idle"]
    /\ ret' = [ret EXCEPT ![t] = NoReturn]
    /\ arg' = [arg EXCEPT ![t] = NoNode]
    /\ UNCHANGED <<node_processes, procs, mlVars>>

\* A starting node opens its port, if the port is free.
Listen(p) ==
    /\ procs[p].state = "starting"
    /\ ~procs[p].term
    /\ OnPort(procs[p].node) = {}
    /\ procs' = [procs EXCEPT ![p].state = "listening"]
    /\ UNCHANGED <<node_processes, pc, arg, ret, mlVars>>

\* A node exits: on SIGTERM, or by itself.
Exit(p) ==
    /\ Live(p)
    /\ procs' = [procs EXCEPT ![p].state = "zombie", ![p].term = FALSE]
    /\ UNCHANGED <<node_processes, pc, arg, ret, mlVars>>

\* A dead child is reaped (subprocess polls the children it still knows).
Reap(p) ==
    /\ procs[p].state = "zombie"
    /\ procs' = [procs EXCEPT ![p].state = "gone"]
    /\ UNCHANGED <<node_processes, pc, arg, ret, mlVars>>

InitNodes ==
    /\ node_processes = <<>>
    /\ procs = <<>>
    /\ pc = [t \in Threads |-> "idle"]
    /\ arg = [t \in Threads |-> NoNode]
    /\ ret = [t \in Threads |-> NoReturn]

InitManager ==
    /\ request = [body |-> "null", data |-> <<>>]
    /\ response = NoResponse
    /\ scores = <<>>
    /\ seen = NoSeen
    /\ InitNodes

NextManager ==
    \/ \E t \in Threads : \E node_id \in NodeIds : start_node(t, node_id)
    \/ \E t \in Threads : StartPort(t)
    \/ \E t \in Threads : StartPopen(t)
    \/ \E t \in Threads : \E node_id \in NodeIds : stop_node(t, node_id)
    \/ \E t \in Threads : \E node_id \in NodeIds : restart_node(t, node_id)
    \/ \E t \in Threads : RestartStart(t)
    \/ \E t \in Threads : status(t)
    \/ \E t \in Threads : Respond(t)
    \/ \E p \in Pids : Listen(p)
    \/ \E p \in Pids : Exit(p)
    \/ \E p \in Pids : Reap(p)

SpecManager == InitManager /\ [][NextManager]_vars

\* The JSON bodies: null, or an object with or without keys and currentTime,
\* the entries of keys drawn from key_data.
InitBodies(key_data) ==
    /\ \/ request = [body |-> "null", data |-> <<>>]
       \/ \E n \in 0..MaxKeys : \E ks \in [1..n -> key_data] :
          \E ct \in CurrentTimes : \E has \in SUBSET {"keys", "currentTime"} :
             request = [body |-> "object",
                        data |-> Object([keys |-> KeyList(ks), currentTime |-> ct], has)]
    /\ response = NoResponse
    /\ scores = <<>>
    /\ seen = NoSeen
    /\ InitNodes

InitPredict == InitBodies(KeyData)

NextPredict == predict

SpecPredict == InitPredict /\ [][NextPredict]_vars

\* Two requests about one key: the keys that were accessed 0 times in all and
\* 0 or more times in the last hour.
IsolationData == {k \in KeyData : k.access_count = 0 /\ k.access_count_hour >= 0}

Companions == {<<>>} \cup {<<[key |-> "z"] @@ k>> : k \in IsolationData}

InitIsolation == InitBodies(IsolationData)

NextIsolation ==
    \/ predict
    \/ \E i \in 1..MaxKeys : \E others \in Companions :
          /\ i <= Len(Get(request.data, "keys", <<>>))
          /\ resubmit(i, others)

SpecIsolation == InitIsolation /\ [][NextIsolation]_vars

(***************************************************************************)
(* The claims                                                              *)
(***************************************************************************)
Floor == 5 * (ProbScale \div 100)      \* 0.05
Ceiling == 95 * (ProbScale \div 100)   \* 0.95
Half == ProbScale \div 2               \* 0.5

Keys == Get(request.data, "keys", <<>>)
Answered == response.status = 200
Predictions == response.body.predictions

\* C1: the predictions of a successful response are sorted by ascending
\* probability, whatever the order of the keys in the request.
C1_RankedAscending ==
    Answered =>
        \A i, j \in 1..Len(Predictions) :
            i < j => Predictions[i].probability <= Predictions[j].probability

\* C2: a successful response names evictKey, the first key of minimum
\* probability in input order, and confidence = 1 - that probability.
C2_EvictionTarget ==
    Answered =>
        /\ "evictKey" \in DOMAIN response.body
        /\ "confidence" \in DOMAIN response.body
        /\ \E i \in 1..Len(Predictions) :
              /\ response.body.evictKey = Predictions[i].key
              /\ response.body.confidence = ProbScale - Predictions[i].probability
              /\ \A j \in 1..Len(Predictions) :
                    /\ Predictions[i].probability <= Predictions[j].probability
                    /\ j < i => Predictions[i].probability < Predictions[j].probability

\* C3: every probability of a successful response lies in [0.05, 0.95],
\* whatever counts and timestamps the request carries.
C3_ProbabilityRange ==
    Answered =>
        \A i \in 1..Len(Predictions) :
            /\ Predictions[i].probability >= Floor
            /\ Predictions[i].probability <= Ceiling

\* C3's case: a key last accessed after currentTime with a negative count,
\* whose total score is nan, in a successful response.
C3_Witness ==
    /\ Answered
    /\ \E i \in 1..Len(Keys) :
          /\ Get(Keys[i], "last_access_ms", 0) > Get(request.data, "currentTime", 0)
          /\ Get(request.data, "currentTime", 0) > 0
          /\ Keys[i].access_count < 0
          /\ scores[i].total_score = NaN

\* C4: a request whose key list is empty or absent is answered 400, 'No keys
\* provided': no key is scored and the response holds no predictions.
C4_NoKeysRejected ==
    (/\ request.body = "object"
     /\ "keys" \in DOMAIN request.data => request.data.keys = <<>>
     /\ response # NoResponse)
    => /\ response = [status |-> 400, body |-> [error |-> "No keys provided"]]
       /\ scores = <<>>

\* C4's case: a request with the empty key list and a currentTime, answered 400.
C4_Witness ==
    /\ request.body = "object"
    /\ response.status = 400
    /\ "keys" \in DOMAIN request.data
    /\ request.data.keys = <<>>
    /\ "currentTime" \in DOMAIN request.data
    /\ request.data.currentTime # 0

\* C5: in every prediction, willBeAccessed is true iff the reported
\* probability (rounded to 4 decimals) is >= 0.5.
C5_WillBeAccessedAsReported ==
    Answered =>
        \A i \in 1..Len(Predictions) :
            Predictions[i].willBeAccessed <=> Predictions[i].probability >= Half

\* C6: a batch in which some key has a negative last-access timestamp is
\* rejected as a whole: an invalid-input error and no prediction.
C6_NegativeTimestampRejected ==
    (/\ response # NoResponse
     /\ \E i \in 1..Len(Keys) : Get(Keys[i], "last_access_ms", 0) < 0)
    => /\ response.status = 400
       /\ "predictions" \notin DOMAIN response.body

\* C7: a key with no recorded access (both counts 0, last_access_ms absent
\* or 0) has recency score 0 and probability exactly 0.05, for every
\* currentTime and whatever the other keys.
C7_NeverAccessedFloor ==
    Answered =>
        \A i \in 1..Len(Keys) :
            (/\ Keys[i].access_count = 0
             /\ Keys[i].access_count_hour = 0
             /\ Get(Keys[i], "last_access_ms", 0) = 0)
            => /\ scores[i].recency_score = Fin(0)
               /\ Predictions[i].debug.recency = Fin(0)
               /\ Predictions[i].probability = Floor

\* C7's case: a key with last_access_ms = 0 and no access, scored with no
\* currentTime given beside a key of higher probability.
C7_Witness ==
    /\ Answered
    /\ Get(request.data, "currentTime", 0) = 0
    /\ \E i, j \in 1..Len(Keys) :
          /\ Keys[i].access_count = 0
          /\ Keys[i].access_count_hour = 0
          /\ "last_access_ms" \in DOMAIN Keys[i]
          /\ Keys[i].last_access_ms = 0
          /\ Predictions[i].probability = Floor
          /\ Predictions[j].probability > Floor

InRange(x, lo, hi) == IsFin(x) /\ x.val >= lo * ScoreScale /\ x.val <= hi * ScoreScale

\* C8: for every key scored, recency is in [0, 40], frequency in [0, 30],
\* activity in [0, 30] and the total in [0, 100].
C8_SubScoreRanges ==
    Answered =>
        \A i \in 1..Len(scores) :
            /\ InRange(scores[i].recency_score, 0, 40)
            /\ InRange(scores[i].frequency_score, 0, 30)
            /\ InRange(scores[i].activity_score, 0, 30)
            /\ InRange(scores[i].total_score, 0, 100)

\* C9 as claimed: a key's probability is the same in two requests that carry
\* the same record for it and the same currentTime value (0 and absent
\* included), whatever the other keys.
C9_Isolation ==
    (seen # NoSeen /\ Answered) => Predictions[1].probability = seen.probability

\* C9 as amended: a key's probability is the same in two requests that carry
\* the same record for it and the same currentTime, given and not 0, whatever
\* the other keys.
C9_IsolationGivenTime ==
    (seen # NoSeen /\ Answered /\ Get(request.data, "currentTime", 0) # 0)
    => Predictions[1].probability = seen.probability

\* C9's case: a key whose recency counts, asked about again beside another
\* key with the currentTime given.
C9_Witness ==
    /\ seen # NoSeen
    /\ Answered
    /\ Get(request.data, "currentTime", 0) # 0
    /\ Len(Keys) = 2
    /\ Get(Keys[2], "last_access_ms", 0) > Get(Keys[1], "last_access_ms", 0)
    /\ seen.probability > Floor
    /\ seen.probability < Ceiling

\* The tracked process of the node is alive and the node's port accepts
\* connections.
Running(node_id) ==
    /\ node_id \in NODES
    /\ node_id \in DOMAIN node_processes
    /\ Live(node_processes[node_id])
    /\ OnPort(node_id) # {}

\* C10: start_node for a known node whose tracked process is alive and whose
\* port accepts connections returns 'already running' with the tracked pid,
\* spawns and kills no process and leaves node_processes unchanged; start_node
\* and stop_node for an unknown node return an error and leave node_processes
\* unchanged.
C10_StartFrame ==
    [][\A t \in Threads : \A node_id \in NodeIds :
          /\ (Running(node_id)
                 /\ (start_node(t, node_id) \/ (RestartStart(t) /\ arg[t] = node_id)))
             => /\ ret'[t] = [status |-> "error: already running", code |-> 400,
                              pid |-> node_processes[node_id]]
                /\ pc'[t] = "done"
                /\ procs' = procs
                /\ node_processes' = node_processes
          /\ (node_id \notin NODES /\ (start_node(t, node_id) \/ stop_node(t, node_id)))
             => /\ ret'[t].code = 400
                /\ ret'[t].status = "error: unknown node"
                /\ pc'[t] = "done"
                /\ procs' = procs
                /\ node_processes' = node_processes]_vars

\* C10's case: start_node has answered 'already running' for a node whose
\* tracked process is alive and listening.
C10_Witness ==
    \E t \in Threads :
        /\ pc[t] = "done"
        /\ ret[t].status = "error: already running"
        /\ Running(arg[t])
        /\ ret[t].pid = node_processes[arg[t]]

\* Every request has been answered: no handler is under way.
Quiet == \A t \in Threads : pc[t] = "idle"

\* The processes spawned for the node that are alive and were not told to
\* stop.
SpawnedLive(node_id) == {p \in Pids : procs[p].node = node_id /\ Live(p) /\ ~procs[p].term}

\* C11: after any sequence and interleaving of start, stop, restart and status
\* requests, each node has at most one live process spawned by the manager,
\* and that process is the pid node_processes records for the node: no spawned
\* process is left running untracked, also when start_node is called while the
\* process started before is alive but not yet listening.
C11_OneTrackedProcess ==
    Quiet =>
        \A node_id \in NODES :
            /\ Cardinality(SpawnedLive(node_id)) <= 1
            /\ \A p \in SpawnedLive(node_id) :
                  node_id \in DOMAIN node_processes /\ node_processes[node_id] = p

====
